---- MODULE Spec2Model ----
(***************************************************************************)
(* Model of the audio segmentation and concurrent transcription pipeline   *)
(* of hearing-site-backend: audio_processing.rs                            *)
(* (split_audio_by_size_and_transcribe and its helpers) and the upload     *)
(* path of main.rs (upload_audio, process_audio_file) that calls it.       *)
(*                                                                         *)
(* usize arithmetic is modelled on the naturals: every value of the model  *)
(* stays far below 2^64.  A text is a sequence of one-character strings.   *)
(* Spawned tasks may run as soon as they are spawned (any tokio runtime).  *)
(***************************************************************************)
EXTENDS Integers, Sequences, FiniteSets, TLC

VARIABLES
    caller,                 \* who called split_audio_by_size_and_transcribe
    pc,                     \* position of the calling chain / orchestrator
    max_segment_size,       \* argument max_segment_size
    segment_duration_secs,  \* local segment_duration_secs
    total_duration,         \* local total_duration (probe result)
    transcriptions,         \* the slot array Vec<Option<String>>
    i,                      \* loop counter of the spawn loop
    all_tasks,              \* one record per spawned task, in spawn order
    lock,                   \* holder of the slot-array mutex
    poisoned,               \* the mutex was poisoned by a panicking holder
    overtook,               \* some task wrote its slot before an earlier one ended
    ret,                    \* outcome of split_audio_by_size_and_transcribe
    final_transcriptions,   \* the Vec<String> it returns on Ok
    probe_calls,            \* number of get_audio_duration invocations
    probe,                  \* outcome of get_audio_duration: none, ok, err
    proc_ret,               \* outcome of process_audio_file
    persisted,              \* content written to the transcription file
    persist_err,            \* the step of the persisting that failed, if any
    response,               \* HTTP response of upload_audio
    fn_in,                  \* input of the function applied on its own
    fn_out,                 \* its result
    runs,                   \* concurrently executing pipeline runs
    files                   \* segment files written, with the writing unit

\* the state of one pipeline run and of its caller
run_vars == <<overtook, caller, pc, max_segment_size, segment_duration_secs,
              total_duration, transcriptions, i, all_tasks, lock, poisoned,
              ret, final_transcriptions, probe_calls, probe, proc_ret,
              persisted, persist_err, response>>

\* the state used when a function or the file naming is examined on its own
aux_vars == <<fn_in, fn_out, runs, files>>

vars == <<run_vars, aux_vars>>

-----------------------------------------------------------------------------
(* Bounds of the model *)

\* largest number of segments a modelled probe result leads to
MaxSegments == 3

-----------------------------------------------------------------------------
(* Program constants *)

\* 128 kbps bitrate, in bits per second (audio_processing.rs:26)
BitrateBitsPerSec == 128000

\* bits per byte (audio_processing.rs:26)
BitsPerByte == 8

\* max segment size passed by process_audio_file: 1024 * 1024 * 10
UploadMaxSegmentSize == 1024 * 1024 * 10

-----------------------------------------------------------------------------
(* Inputs *)

Callers == {"direct", "upload"}

\* sizes a direct caller of the public function may pass
SegmentSizes == {0, 15999, 16000, 32001, UploadMaxSegmentSize}

SegDurations == {s \div (BitrateBitsPerSec \div BitsPerByte) : s \in SegmentSizes}

\* durations the probe may report: around every multiple of a segment length
SampleDurations ==
    {n \in UNION {{k * d - 1, k * d, k * d + 1} :
                    k \in 0..MaxSegments, d \in SegDurations} : n >= 0}

\* the probe results explored for a given segment length
ProbeDurations(d) ==
    {n \in SampleDurations : IF d = 0 THEN n <= MaxSegments
                                      ELSE n <= MaxSegments * d}

None == <<>>
Some(t) == <<t>>

Space == <<" ">>

\* the texts the transcription service may answer for segment index idx
TextsOf(idx) == {<<>>, <<ToString(idx)>>}

-----------------------------------------------------------------------------
(* Pure helpers *)

\* rounds down instead of up
total_segments_floor(total, seg) == total \div seg

total_segments(total, seg) == (total + seg - 1) \div seg

RECURSIVE filter_map(_)
filter_map(v) ==
    IF v = <<>> THEN <<>>
    ELSE (IF Head(v) = None THEN <<>> ELSE <<Head(v)[1]>>) \o filter_map(Tail(v))

\* concatenates without the separator
RECURSIVE join_nosep(_, _)
join_nosep(v, sep) ==
    IF Len(v) = 0 THEN <<>> ELSE v[1] \o join_nosep(Tail(v), <<>>)

RECURSIVE join(_, _)
join(v, sep) ==
    IF Len(v) = 0 THEN <<>>
    ELSE IF Len(v) = 1 THEN v[1]
    ELSE v[1] \o sep \o join(Tail(v), sep)

Terminal(t) == t.st \in {"ok", "err", "panicked"}

-----------------------------------------------------------------------------
Init ==
    /\ caller \in Callers
    /\ pc = IF caller = "upload" THEN "upload" ELSE "entry"
    /\ max_segment_size \in (IF caller = "upload" THEN {UploadMaxSegmentSize}
                                                  ELSE SegmentSizes)
    /\ segment_duration_secs = 0
    /\ total_duration = 0
    /\ transcriptions = <<>>
    /\ i = 0
    /\ all_tasks = <<>>
    /\ lock = "free"
    /\ poisoned = FALSE
    /\ overtook = FALSE
    /\ ret = "none"
    /\ final_transcriptions = <<>>
    /\ probe_calls = 0
    /\ probe = "none"
    /\ proc_ret = "none"
    /\ persisted = None
    /\ persist_err = "none"
    /\ response = "none"
    /\ fn_in = <<>>
    /\ fn_out = <<>>
    /\ runs = <<>>
    /\ files = {}

\* the return of split_audio_by_size_and_transcribe with outcome r, and the
\* `?` of process_audio_file when it is the caller
SplitReturn(r) ==
    /\ ret' = r
    /\ pc' = IF caller = "upload"
             THEN (IF r = "Ok" THEN "persist" ELSE "respond")
             ELSE "done"
    /\ proc_ret' = IF caller = "upload" /\ r = "Err" THEN "Err" ELSE proc_ret

\* upload_audio: create the upload file and write the multipart chunks
upload_save ==
    /\ pc = "upload"
    /\ \E saved \in BOOLEAN :
          pc' = IF saved THEN "process" ELSE "panicked"
    /\ UNCHANGED <<aux_vars, overtook, caller, max_segment_size, segment_duration_secs,
                   total_duration, transcriptions, i, all_tasks, lock,
                   poisoned, ret, final_transcriptions, probe_calls, probe,
                   proc_ret, persisted, persist_err, response>>

\* process_audio_file: read OPENAI_API_KEY, then call the pipeline
process_start ==
    /\ pc = "process"
    /\ \E key_set \in BOOLEAN :
          pc' = IF key_set THEN "entry" ELSE "panicked"
    /\ UNCHANGED <<aux_vars, overtook, caller, max_segment_size, segment_duration_secs,
                   total_duration, transcriptions, i, all_tasks, lock,
                   poisoned, ret, final_transcriptions, probe_calls, probe,
                   proc_ret, persisted, persist_err, response>>

\* split_audio_by_size_and_transcribe, up to the segment length
split_entry ==
    /\ pc = "entry"
    /\ \E stem_ok \in (IF caller = "upload" THEN {TRUE} ELSE BOOLEAN),
          dir_ok \in BOOLEAN :
          IF stem_ok /\ dir_ok
          THEN /\ segment_duration_secs' =
                      max_segment_size \div (BitrateBitsPerSec \div BitsPerByte)
               /\ pc' = "probe"
               /\ UNCHANGED <<ret, proc_ret>>
          ELSE /\ SplitReturn("Err")
               /\ UNCHANGED segment_duration_secs
    /\ UNCHANGED <<aux_vars, overtook, caller, max_segment_size, total_duration, transcriptions, i,
                   all_tasks, lock, poisoned, final_transcriptions,
                   probe_calls, probe, persisted, persist_err,
                   response>>

\* falls back to some duration when the probe fails
get_audio_duration_defaulting ==
    /\ pc = "probe"
    /\ probe_calls' = probe_calls + 1
    /\ \E n \in ProbeDurations(segment_duration_secs) :
          /\ probe' \in {"ok", "err"}
          /\ total_duration' = n
          /\ pc' = "alloc"
          /\ UNCHANGED <<ret, proc_ret>>
    /\ UNCHANGED <<aux_vars, overtook, caller, max_segment_size, segment_duration_secs,
                   transcriptions, i, all_tasks, lock, poisoned,
                   final_transcriptions, persisted, persist_err,
                   response>>

\* let total_duration = get_audio_duration(input_path)?
get_audio_duration ==
    /\ pc = "probe"
    /\ probe_calls' = probe_calls + 1
    /\ \/ /\ probe' = "err"
          /\ SplitReturn("Err")
          /\ UNCHANGED total_duration
       \/ \E n \in ProbeDurations(segment_duration_secs) :
             /\ probe' = "ok"
             /\ total_duration' = n
             /\ pc' = "alloc"
             /\ UNCHANGED <<ret, proc_ret>>
    /\ UNCHANGED <<aux_vars, overtook, caller, max_segment_size, segment_duration_secs,
                   transcriptions, i, all_tasks, lock, poisoned,
                   final_transcriptions, persisted, persist_err,
                   response>>

\* the slot array vec![None; total_segments(..)]; a zero segment length
\* panics in total_segments (subtraction overflow or division by zero)
alloc_slots ==
    /\ pc = "alloc"
    /\ IF segment_duration_secs = 0
       THEN /\ pc' = "panicked"
            /\ UNCHANGED transcriptions
       ELSE /\ transcriptions' =
                   [k \in 1..total_segments(total_duration, segment_duration_secs)
                      |-> None]
            /\ pc' = "loop"
    /\ UNCHANGED <<aux_vars, overtook, caller, max_segment_size, segment_duration_secs,
                   total_duration, i, all_tasks, lock, poisoned, ret,
                   final_transcriptions, probe_calls, probe, proc_ret,
                   persisted, persist_err, response>>

\* leaves one second between consecutive segments
StartTime_gap(idx, seg) == idx * seg + idx

StartTime(idx, seg) == idx * seg

\* tests the end of the input only after the first iteration
LoopBreak_dowhile(start_time, total) == start_time > 0 /\ start_time >= total

\* lets the iteration that starts exactly at the end of the input run
LoopBreak_gt(start_time, total) == start_time > total

LoopBreak(start_time, total) == start_time >= total

\* one iteration of `for i in 0..`: break, or spawn the task of index i
spawn_loop ==
    /\ pc = "loop"
    /\ LET start_time == StartTime(i, segment_duration_secs) IN
       IF LoopBreak(start_time, total_duration)
       THEN /\ pc' = "join"
            /\ UNCHANGED <<i, all_tasks>>
       ELSE /\ all_tasks' = Append(all_tasks,
                   [idx |-> i, start_time |-> start_time,
                    duration_secs |-> segment_duration_secs,
                    st |-> "spawned", text |-> <<>>,
                    cut |-> "none", tr |-> "none",
                    cut_calls |-> 0, tr_calls |-> 0, writes |-> 0])
            /\ i' = i + 1
            /\ UNCHANGED pc
    /\ UNCHANGED <<aux_vars, overtook, caller, max_segment_size, segment_duration_secs,
                   total_duration, transcriptions, lock, poisoned, ret,
                   final_transcriptions, probe_calls, probe, proc_ret,
                   persisted, persist_err, response>>

TaskVarsUnchanged ==
    UNCHANGED <<aux_vars, caller, pc, max_segment_size, segment_duration_secs,
                total_duration, i, ret, final_transcriptions, probe_calls,
                probe, proc_ret, persisted, persist_err, response>>

\* goes on to the transcription whatever the exit status of ffmpeg
split_audio_segment_unchecked(k) ==
    /\ all_tasks[k].st = "spawned"
    /\ \E status_success \in BOOLEAN :
          all_tasks' = [all_tasks EXCEPT
              ![k].st = "cut_ok",
              ![k].cut = IF status_success THEN "ok" ELSE "err",
              ![k].cut_calls = @ + 1]
    /\ UNCHANGED <<transcriptions, lock, poisoned, overtook>>
    /\ TaskVarsUnchanged

\* task k, step 1: split_audio_segment(..)? runs ffmpeg on the range
split_audio_segment(k) ==
    /\ all_tasks[k].st = "spawned"
    /\ \E status_success \in BOOLEAN :
          all_tasks' = [all_tasks EXCEPT
              ![k].st = IF status_success THEN "cut_ok" ELSE "err",
              ![k].cut = IF status_success THEN "ok" ELSE "err",
              ![k].cut_calls = @ + 1]
    /\ UNCHANGED <<transcriptions, lock, poisoned, overtook>>
    /\ TaskVarsUnchanged

\* the bodies the endpoint may answer with for segment index idx
\* (not JSON; JSON without "text"; JSON whose "text" is not a string; JSON
\* with a string "text")
Bodies(idx) ==
    {[json |-> FALSE, field |-> "absent", text |-> None],
     [json |-> TRUE, field |-> "absent", text |-> None],
     [json |-> TRUE, field |-> "number", text |-> None]}
    \cup {[json |-> TRUE, field |-> "string", text |-> Some(t)] : t \in TextsOf(idx)}

\* takes the text of the body whatever the response status
send_transcription_request_anystatus(file_opens, sent, is_success, body) ==
    IF ~file_opens THEN None
    ELSE IF ~sent THEN None
    ELSE IF ~body.json THEN None
    ELSE IF body.text # None THEN body.text
    ELSE None

\* send_transcription_request: None is Err, Some(text) is Ok(text)
send_transcription_request(file_opens, sent, is_success, body) ==
    IF ~file_opens THEN None
    ELSE IF ~sent THEN None
    ELSE IF is_success
         THEN (IF ~body.json THEN None
               ELSE IF body.text # None THEN body.text
               ELSE None)
         ELSE None

\* sends the request a second time when the first one failed
transcribe_audio_segment_retrying(k) ==
    /\ all_tasks[k].st = "cut_ok"
    /\ \E file_opens \in BOOLEAN, sent \in BOOLEAN, is_success \in BOOLEAN,
          body \in Bodies(all_tasks[k].idx) :
          LET r == send_transcription_request(file_opens, sent, is_success, body)
          IN all_tasks' = [all_tasks EXCEPT
                 ![k].st = IF r # None THEN "got_text"
                           ELSE IF all_tasks[k].tr_calls = 0 THEN "cut_ok"
                           ELSE "ok",
                 ![k].tr = IF r = None THEN "err" ELSE "ok",
                 ![k].text = IF r = None THEN <<>> ELSE r[1],
                 ![k].tr_calls = @ + 1]
    /\ UNCHANGED <<transcriptions, lock, poisoned, overtook>>
    /\ TaskVarsUnchanged

\* records an empty text marker for a failed transcription
transcribe_audio_segment_marking(k) ==
    /\ all_tasks[k].st = "cut_ok"
    /\ \E file_opens \in BOOLEAN, sent \in BOOLEAN, is_success \in BOOLEAN,
          body \in Bodies(all_tasks[k].idx) :
          LET r == send_transcription_request(file_opens, sent, is_success, body)
          IN all_tasks' = [all_tasks EXCEPT
                 ![k].st = "got_text",
                 ![k].tr = IF r = None THEN "err" ELSE "ok",
                 ![k].text = IF r = None THEN <<>> ELSE r[1],
                 ![k].tr_calls = @ + 1]
    /\ UNCHANGED <<transcriptions, lock, poisoned, overtook>>
    /\ TaskVarsUnchanged

\* task k, step 2: transcribe_audio_segment(..).await and its match
transcribe_audio_segment(k) ==
    /\ all_tasks[k].st = "cut_ok"
    /\ \E file_opens \in BOOLEAN, sent \in BOOLEAN, is_success \in BOOLEAN,
          body \in Bodies(all_tasks[k].idx) :
          LET r == send_transcription_request(file_opens, sent, is_success, body)
          IN all_tasks' = [all_tasks EXCEPT
                 ![k].st = IF r = None THEN "ok" ELSE "got_text",
                 ![k].tr = IF r = None THEN "err" ELSE "ok",
                 ![k].text = IF r = None THEN <<>> ELSE r[1],
                 ![k].tr_calls = @ + 1]
    /\ UNCHANGED <<transcriptions, lock, poisoned, overtook>>
    /\ TaskVarsUnchanged

\* task k, step 3: transcriptions_clone.lock().unwrap()
task_lock(k) ==
    /\ all_tasks[k].st = "got_text"
    /\ lock = "free"
    /\ IF poisoned
       THEN /\ all_tasks' = [all_tasks EXCEPT ![k].st = "panicked"]
            /\ UNCHANGED lock
       ELSE /\ all_tasks' = [all_tasks EXCEPT ![k].st = "locked"]
            /\ lock' = "task"
    /\ UNCHANGED <<transcriptions, poisoned, overtook>>
    /\ TaskVarsUnchanged

\* every task writes the first slot
SlotOf_first(idx) == 1

\* the slot a task of segment index idx writes
SlotOf(idx) == idx + 1

\* task k, step 4: transcriptions_lock[i] = Some(transcription), guard dropped
task_write(k) ==
    /\ all_tasks[k].st = "locked"
    /\ LET slot == SlotOf(all_tasks[k].idx) IN
       IF slot \in DOMAIN transcriptions
       THEN /\ transcriptions' =
                   [transcriptions EXCEPT ![slot] = Some(all_tasks[k].text)]
            /\ all_tasks' = [all_tasks EXCEPT ![k].st = "ok",
                                              ![k].writes = @ + 1]
            /\ UNCHANGED poisoned
       ELSE /\ all_tasks' = [all_tasks EXCEPT ![k].st = "panicked"]
            /\ poisoned' = TRUE
            /\ UNCHANGED transcriptions
    /\ overtook' = (overtook \/ \E j \in 1..(k - 1) : ~Terminal(all_tasks[j]))
    /\ lock' = "free"
    /\ TaskVarsUnchanged

\* the tasks join_all waits for
Awaited == {k \in 1..Len(all_tasks) : ~Terminal(all_tasks[k])}

\* resumes as soon as one task has finished
join_all_race ==
    /\ pc = "join"
    /\ (all_tasks = <<>> \/ \E k \in 1..Len(all_tasks) : Terminal(all_tasks[k]))
    /\ pc' = "assemble"
    /\ UNCHANGED <<aux_vars, overtook, caller, max_segment_size, segment_duration_secs,
                   total_duration, transcriptions, i, all_tasks, lock,
                   poisoned, ret, final_transcriptions, probe_calls, probe,
                   proc_ret, persisted, persist_err, response>>

\* join_all(all_tasks).await
join_all ==
    /\ pc = "join"
    /\ Awaited = {}
    /\ pc' = "assemble"
    /\ UNCHANGED <<aux_vars, overtook, caller, max_segment_size, segment_duration_secs,
                   total_duration, transcriptions, i, all_tasks, lock,
                   poisoned, ret, final_transcriptions, probe_calls, probe,
                   proc_ret, persisted, persist_err, response>>

Reverse(v) == [k \in 1..Len(v) |-> v[Len(v) + 1 - k]]

\* reads the slots from the last to the first
Collect_reversed(slots) == Reverse(filter_map(slots))

\* the order in which the slots are read for the result
Collect(slots) == filter_map(slots)

\* propagates the error of a task whose cut failed
assemble_propagating ==
    /\ pc = "assemble"
    /\ lock = "free"
    /\ IF poisoned
       THEN /\ pc' = "panicked"
            /\ UNCHANGED <<ret, proc_ret, final_transcriptions>>
       ELSE IF \E k \in 1..Len(all_tasks) : all_tasks[k].st = "err"
       THEN /\ SplitReturn("Err")
            /\ UNCHANGED final_transcriptions
       ELSE /\ final_transcriptions' = Collect(transcriptions)
            /\ SplitReturn("Ok")
    /\ UNCHANGED <<aux_vars, overtook, caller, max_segment_size, segment_duration_secs,
                   total_duration, transcriptions, i, all_tasks, lock,
                   poisoned, probe_calls, probe, persisted,
                   persist_err, response>>

\* lock, clone, filter_map, collect, Ok(final_transcriptions)
assemble ==
    /\ pc = "assemble"
    /\ lock = "free"
    /\ IF poisoned
       THEN /\ pc' = "panicked"
            /\ UNCHANGED <<ret, proc_ret, final_transcriptions>>
       ELSE /\ final_transcriptions' = Collect(transcriptions)
            /\ SplitReturn("Ok")
    /\ UNCHANGED <<aux_vars, overtook, caller, max_segment_size, segment_duration_secs,
                   total_duration, transcriptions, i, all_tasks, lock,
                   poisoned, probe_calls, probe, persisted, persist_err,
                   response>>

\* process_audio_file after the pipeline: join with " " and write the file
persist ==
    /\ pc = "persist"
    /\ LET transcription_combined == join(final_transcriptions, Space) IN
       \E dir_ok \in BOOLEAN, created \in BOOLEAN, written \in BOOLEAN :
          IF dir_ok /\ created
          THEN IF written
               THEN /\ persisted' = Some(transcription_combined)
                    /\ persist_err' = "none"
                    /\ proc_ret' = "Ok"
               ELSE /\ \E n \in 0..Len(transcription_combined) :
                          persisted' = Some(SubSeq(transcription_combined, 1, n))
                    /\ persist_err' = "write"
                    /\ proc_ret' = "Err"
          ELSE /\ proc_ret' = "Err"
               /\ persist_err' = IF dir_ok THEN "create" ELSE "dir"
               /\ UNCHANGED persisted
    /\ pc' = "respond"
    /\ UNCHANGED <<aux_vars, overtook, caller, max_segment_size, segment_duration_secs,
                   total_duration, transcriptions, i, all_tasks, lock,
                   poisoned, ret, final_transcriptions, probe_calls, probe,
                   response>>

\* upload_audio: the match on process_audio_file's result
respond ==
    /\ pc = "respond"
    /\ response' = IF proc_ret = "Ok" THEN "Ok" ELSE "InternalServerError"
    /\ pc' = "done"
    /\ UNCHANGED <<aux_vars, overtook, caller, max_segment_size, segment_duration_secs,
                   total_duration, transcriptions, i, all_tasks, lock,
                   poisoned, ret, final_transcriptions, probe_calls, probe,
                   proc_ret, persisted, persist_err>>

Next ==
    \/ upload_save
    \/ process_start
    \/ split_entry
    \/ get_audio_duration
    \/ alloc_slots
    \/ spawn_loop
    \/ \E k \in 1..Len(all_tasks) : split_audio_segment(k)
    \/ \E k \in 1..Len(all_tasks) : transcribe_audio_segment(k)
    \/ \E k \in 1..Len(all_tasks) : task_lock(k)
    \/ \E k \in 1..Len(all_tasks) : task_write(k)
    \/ join_all
    \/ assemble
    \/ persist
    \/ respond

Spec == Init /\ [][Next]_vars

\* the runtime keeps running whatever can run: some enabled step is taken
FairSpec == Spec /\ WF_vars(Next)

-----------------------------------------------------------------------------
(* The transcription client on its own *)

\* the run variables when no run is under way
RunIdle ==
    /\ caller = "direct"
    /\ pc = "idle"
    /\ max_segment_size = 0
    /\ segment_duration_secs = 0
    /\ total_duration = 0
    /\ transcriptions = <<>>
    /\ i = 0
    /\ all_tasks = <<>>
    /\ lock = "free"
    /\ poisoned = FALSE
    /\ overtook = FALSE
    /\ ret = "none"
    /\ final_transcriptions = <<>>
    /\ probe_calls = 0
    /\ probe = "none"
    /\ proc_ret = "none"
    /\ persisted = None
    /\ persist_err = "none"
    /\ response = "none"

\* what may happen to one request: file, network, status, body
ClientInputs ==
    [file_opens : BOOLEAN, sent : BOOLEAN, is_success : BOOLEAN,
     body : UNION {Bodies(idx) : idx \in 0..(MaxSegments - 1)}]

InitClient ==
    /\ RunIdle
    /\ fn_in \in ClientInputs
    /\ fn_out = <<>>
    /\ runs = <<>>
    /\ files = {}

\* one call of send_transcription_request
client_call ==
    /\ pc = "idle"
    /\ fn_in \in ClientInputs
    /\ fn_out = <<>>
    /\ fn_out' = <<send_transcription_request(fn_in.file_opens, fn_in.sent,
                                               fn_in.is_success, fn_in.body)>>
    /\ UNCHANGED <<run_vars, fn_in, runs, files>>

NextClient == client_call

SpecClient == InitClient /\ [][NextClient]_vars

-----------------------------------------------------------------------------
(* The prober on its own: get_audio_duration on the text ffmpeg prints.    *)
(* The stderr text is a sequence of lines, a line the sequence of its      *)
(* whitespace-separated tokens, a token a sequence of characters.  Numbers *)
(* are kept in thousandths, exact for up to three fractional digits.       *)

DurationWord == <<"D", "u", "r", "a", "t", "i", "o", "n">>

\* str.contains(pat) for a token
Contains(tok, pat) ==
    \E p \in 1..(Len(tok) - Len(pat) + 1) : SubSeq(tok, p, p + Len(pat) - 1) = pat

\* line.contains("Duration"): the word has no blank, so it lies in one token
line_contains(line, pat) == \E t \in DOMAIN line : Contains(line[t], pat)

\* split_whitespace().nth(1).unwrap_or("")
nth1(line) == IF Len(line) >= 2 THEN line[2] ELSE <<>>

RECURSIVE trim_end_matches(_, _)
trim_end_matches(str, c) ==
    IF str # <<>> /\ str[Len(str)] = c
    THEN trim_end_matches(SubSeq(str, 1, Len(str) - 1), c)
    ELSE str

RECURSIVE split(_, _)
split(str, c) ==
    LET at == {p \in DOMAIN str : str[p] = c} IN
    IF at = {} THEN <<str>>
    ELSE LET p == CHOOSE q \in at : \A r \in at : q <= r
         IN <<SubSeq(str, 1, p - 1)>> \o split(SubSeq(str, p + 1, Len(str)), c)

IsDigit(c) == c \in {ToString(d) : d \in 0..9}

DigitVal(c) == CHOOSE d \in 0..9 : ToString(d) = c

RECURSIVE IntVal(_)
IntVal(digits) ==
    IF digits = <<>> THEN 0
    ELSE 10 * IntVal(SubSeq(digits, 1, Len(digits) - 1))
         + DigitVal(digits[Len(digits)])

\* str.parse::<f64>() for unsigned decimal numerals, in thousandths; None is
\* the parse error
parse_f64(str) ==
    LET dots == {p \in DOMAIN str : str[p] = "."}
        dot == IF dots = {} THEN Len(str) + 1 ELSE CHOOSE p \in dots : TRUE
        whole == SubSeq(str, 1, dot - 1)
        frac == SubSeq(str, dot + 1, Len(str))
        frac3 == SubSeq(frac \o <<"0", "0", "0">>, 1, 3)
    IN IF \/ Cardinality(dots) > 1
          \/ Len(whole) + Len(frac) = 0
          \/ \E p \in DOMAIN str : str[p] # "." /\ ~IsDigit(str[p])
       THEN None
       ELSE Some(1000 * IntVal(whole) + IntVal(frac3))

\* get_audio_duration on what ffmpeg did: None is Err, Some(n) is Ok(n)
get_audio_duration_of(ran, lines) ==
    LET found == {l \in DOMAIN lines : line_contains(lines[l], DurationWord)} IN
    IF ~ran \/ found = {} THEN None
    ELSE LET duration_line == lines[CHOOSE l \in found : \A r \in found : l <= r]
             duration_str == nth1(duration_line)
             time_parts == split(trim_end_matches(duration_str, ","), ":")
         IN IF Len(time_parts) # 3 THEN None
            ELSE LET hours == parse_f64(time_parts[1])
                     minutes == parse_f64(time_parts[2])
                     seconds == parse_f64(time_parts[3])
                 IN IF hours = None \/ minutes = None \/ seconds = None
                    THEN None
                    ELSE Some((hours[1] * 3600 + minutes[1] * 60 + seconds[1])
                                  \div 1000)

\* a two-digit field as ffmpeg prints it
Digits2(n) == <<ToString(n \div 10), ToString(n % 10)>>

\* "HH:MM:SS[.ff]," as ffmpeg prints it on its Duration line
DurationField(h, m, sec, frac) ==
    Digits2(h) \o <<":">> \o Digits2(m) \o <<":">> \o Digits2(sec)
    \o (IF frac = <<>> THEN <<>> ELSE <<".">> \o frac) \o <<",">>

\* "Input #0, mp3, from 'a.mp3':"
InputLine ==
    <<<<"I", "n", "p", "u", "t">>, <<"#", "0", ",">>, <<"m", "p", "3", ",">>,
      <<"f", "r", "o", "m">>, <<"'", "a", ".", "m", "p", "3", "'", ":">>>>

\* "title : Duration", a metadata line printed before the Duration line
TitleLine == <<<<"t", "i", "t", "l", "e">>, <<":">>, DurationWord>>

\* "Duration: <field> start: 0.0, bitrate: 128 kb/s"
DurationLine(field) ==
    <<DurationWord \o <<":">>, field, <<"s", "t", "a", "r", "t", ":">>,
      <<"0", ".", "0", ",">>, <<"b", "i", "t", "r", "a", "t", "e", ":">>,
      <<"1", "2", "8">>, <<"k", "b", "/", "s">>>>

\* "Stream #0:0: Audio: mp3"
StreamLine ==
    <<<<"S", "t", "r", "e", "a", "m">>, <<"#", "0", ":", "0", ":">>,
      <<"A", "u", "d", "i", "o", ":">>, <<"m", "p", "3">>>>

Fractions == {<<>>, <<"0", "5">>, <<"9", "9">>}

\* outputs with a Duration line of the three-part form, with and without a
\* metadata line that mentions the word before it
GoodSamples ==
    {[kind |-> k, ran |-> TRUE, h |-> h, m |-> m, sec |-> sec,
      lines |-> IF k = "three_part"
                THEN <<InputLine, DurationLine(DurationField(h, m, sec, f)),
                       StreamLine>>
                ELSE <<InputLine, TitleLine,
                       DurationLine(DurationField(h, m, sec, f)), StreamLine>>] :
        k \in {"three_part", "three_part_after_title"},
        h \in {0, 1, 10}, m \in {0, 59}, sec \in {0, 7, 59}, f \in Fractions}

\* outputs without a Duration line or with a malformed duration field
BadSamples ==
    {[kind |-> "no_line", ran |-> TRUE, h |-> 0, m |-> 0, sec |-> 0,
      lines |-> <<InputLine, StreamLine>>],
     [kind |-> "not_run", ran |-> FALSE, h |-> 0, m |-> 0, sec |-> 0,
      lines |-> <<>>],
     [kind |-> "not_available", ran |-> TRUE, h |-> 0, m |-> 0, sec |-> 0,
      lines |-> <<InputLine, DurationLine(<<"N", "/", "A", ",">>)>>],
     [kind |-> "two_parts", ran |-> TRUE, h |-> 0, m |-> 0, sec |-> 0,
      lines |-> <<InputLine, DurationLine(<<"0", "1", ":", "0", "2", ",">>)>>],
     [kind |-> "four_parts", ran |-> TRUE, h |-> 0, m |-> 0, sec |-> 0,
      lines |-> <<InputLine,
                  DurationLine(<<"0", ":", "0", "1", ":", "0", "2", ":", "0", "3", ",">>)>>],
     [kind |-> "non_numeric", ran |-> TRUE, h |-> 0, m |-> 0, sec |-> 0,
      lines |-> <<InputLine,
                  DurationLine(<<"0", "0", ":", "x", "x", ":", "0", "3", ",">>)>>],
     [kind |-> "no_field", ran |-> TRUE, h |-> 0, m |-> 0, sec |-> 0,
      lines |-> <<InputLine, <<DurationWord \o <<":">>>>>>]}

ProbeSamples == GoodSamples \cup BadSamples

InitProbe ==
    /\ RunIdle
    /\ fn_in \in ProbeSamples
    /\ fn_out = <<>>
    /\ runs = <<>>
    /\ files = {}

\* one call of get_audio_duration
probe_call ==
    /\ pc = "idle"
    /\ fn_in \in ProbeSamples
    /\ fn_out = <<>>
    /\ fn_out' = <<get_audio_duration_of(fn_in.ran, fn_in.lines)>>
    /\ UNCHANGED <<run_vars, fn_in, runs, files>>

NextProbe == probe_call

SpecProbe == InitProbe /\ [][NextProbe]_vars

-----------------------------------------------------------------------------
(* The naming of the segment files, for two runs that execute concurrently. *)
(* A path is its directory and its file name; an input file name is its     *)
(* stem and its extension.                                                  *)

RunIds == {1, 2}

\* upload_audio saves each upload under a fresh UUID
UploadPath(r) == [dir |-> "uploads", stem |-> <<"uuid", r>>, ext |-> "mp3"]

\* input paths a direct caller may pass
DirectPaths ==
    {[dir |-> "a", stem |-> <<"x">>, ext |-> "mp3"],
     [dir |-> "b", stem |-> <<"x">>, ext |-> "wav"],
     [dir |-> "a", stem |-> <<"y">>, ext |-> "mp3"]}

\* PathBuf::from(input_path).file_stem()
file_stem(path) == path.stem

\* PathBuf::from("split_audio")
split_dir == "split_audio"

output_extension == "mp3"

\* format!("{}_part{}.{}", base_filename, i + 1, output_extension)
segment_filename(base_filename, idx) ==
    <<base_filename, "_part", idx + 1, ".", output_extension>>

\* split_dir.join(&segment_filename)
output_path(input_path, idx) ==
    [dir |-> split_dir, name |-> segment_filename(file_stem(input_path), idx)]

InitRuns ==
    /\ RunIdle
    /\ fn_in = <<>>
    /\ fn_out = <<>>
    /\ runs \in [RunIds -> [input_path : DirectPaths \cup {UploadPath(r) : r \in RunIds},
                            segments : 1..MaxSegments,
                            spawned : {0},
                            cut : {{}}]]
    /\ \A r \in RunIds :
          runs[r].input_path.dir = "uploads" => runs[r].input_path = UploadPath(r)
    /\ files = {}

\* run r spawns the task of its next segment index
run_spawn(r) ==
    /\ pc = "idle"
    /\ runs # <<>>
    /\ runs[r].spawned < runs[r].segments
    /\ runs' = [runs EXCEPT ![r].spawned = @ + 1]
    /\ UNCHANGED <<run_vars, fn_in, fn_out, files>>

\* the task of segment idx of run r has ffmpeg write its output file
run_cut(r, idx) ==
    /\ pc = "idle"
    /\ runs # <<>>
    /\ idx < runs[r].spawned
    /\ idx \notin runs[r].cut
    /\ runs' = [runs EXCEPT ![r].cut = @ \cup {idx}]
    /\ files' = files \cup {[path |-> output_path(runs[r].input_path, idx),
                             by |-> <<r, idx>>]}
    /\ UNCHANGED <<run_vars, fn_in, fn_out>>

NextRuns ==
    \/ \E r \in RunIds : run_spawn(r)
    \/ \E r \in RunIds, idx \in 0..(MaxSegments - 1) : run_cut(r, idx)

SpecRuns == InitRuns /\ [][NextRuns]_vars

-----------------------------------------------------------------------------
(* Properties *)

Tasks == 1..Len(all_tasks)

Failed(k) == all_tasks[k].cut = "err" \/ all_tasks[k].tr = "err"

Succeeded(k) == all_tasks[k].cut = "ok" /\ all_tasks[k].tr = "ok"

\* the pipeline call is over: it returned or it panicked
RunOver == ret # "none" \/ pc = "panicked"

\* the spawn loop has ended
Launched == pc \in {"join", "assemble"} \/ ret = "Ok"

\* the slot array has been allocated
Allocated == pc = "loop" \/ Launched

\* the texts of the tasks of S, in increasing segment index order
Pick(S) ==
    LET F[k \in 0..Len(all_tasks)] ==
            IF k = 0 THEN <<>>
            ELSE IF k \in S THEN Append(F[k - 1], all_tasks[k].text)
            ELSE F[k - 1]
    IN F[Len(all_tasks)]

\* the least q with q * b >= a
CeilDiv(a, b) == CHOOSE q \in 0..a : q * b >= a /\ \A r \in 0..(q - 1) : r * b < a

Min(a, b) == IF a <= b THEN a ELSE b

\* the end of the range task k requests, clipped to the source length
ClippedEnd(k) ==
    Min(all_tasks[k].start_time + all_tasks[k].duration_secs, total_duration)

\* C1: the returned sequence lists per-segment texts in increasing segment
\* index order, whatever the order in which the units completed: it is the
\* texts of some set of transcribed segments taken by increasing index.
C1_OutputInIndexOrder ==
    ret = "Ok" =>
        /\ \A k \in Tasks : all_tasks[k].idx = k - 1
        /\ \E S \in SUBSET {k \in Tasks : all_tasks[k].tr = "ok"} :
              final_transcriptions = Pick(S)

\* C1 witness: a later segment was recorded before an earlier one had ended,
\* and the run returned the texts of all its segments
C1_Witness ==
    /\ ret = "Ok"
    /\ overtook
    /\ Len(final_transcriptions) >= 2
    /\ Len(final_transcriptions) = Len(all_tasks)
    /\ final_transcriptions[1] # final_transcriptions[2]

\* C2 (as claimed): after a successful probe, the failure of a unit leaves
\* every sibling attempted and its text recorded, the run returns Ok, and the
\* upload endpoint answers with a success response.
C2_IsolationAndSuccessResponse ==
    (probe = "ok" /\ \E k \in Tasks : Failed(k)) =>
        /\ RunOver =>
              /\ ret = "Ok"
              /\ \A j \in Tasks :
                    /\ all_tasks[j].cut_calls = 1
                    /\ Succeeded(j) =>
                          transcriptions[SlotOf(all_tasks[j].idx)]
                              = Some(all_tasks[j].text)
        /\ response # "none" => response = "Ok"

\* C2 (amended): as claimed, except that the upload endpoint answers with a
\* success response exactly when process_audio_file then manages to persist
\* the transcript (directory, file creation and write all succeed).
C2_IsolationAmended ==
    (probe = "ok" /\ \E k \in Tasks : Failed(k)) =>
        /\ RunOver =>
              /\ ret = "Ok"
              /\ \A j \in Tasks :
                    /\ all_tasks[j].cut_calls = 1
                    /\ Succeeded(j) =>
                          transcriptions[SlotOf(all_tasks[j].idx)]
                              = Some(all_tasks[j].text)
        /\ response # "none" => (response = "Ok" <=> persist_err = "none")

\* C2 witness: one unit failed, a sibling recorded its text, success response
C2_Witness ==
    /\ response = "Ok"
    /\ ret = "Ok"
    /\ \E k \in Tasks : all_tasks[k].cut = "err"
    /\ \E k \in Tasks : all_tasks[k].tr = "err"
    /\ \E j \in Tasks : Succeeded(j) /\ all_tasks[j].text # <<>>

\* C3: no unit exists and no segmentation or transcription call is made
\* unless the probe has returned successfully; a failed probe makes the run
\* return an error with no unit ever scheduled and one external call only.
C3_FailFastPlanning ==
    /\ all_tasks # <<>> => probe = "ok"
    /\ pc \in {"alloc", "loop", "join", "assemble"} => probe = "ok"
    /\ probe = "err" =>
          /\ ret = "Err"
          /\ all_tasks = <<>>
          /\ probe_calls = 1

\* C3 witness: the probe failed and the run has returned its error
C3_Witness == probe = "err" /\ ret = "Err" /\ pc \in {"done", "respond"}

\* C4: once the run is past join_all (assembling, returned) every launched
\* unit is in a terminal state and none holds the slot array's lock.
C4_JoinBarrier ==
    (pc \in {"assemble", "persist", "respond", "done", "panicked"}
        \/ ret # "none") =>
        /\ Awaited = {}
        /\ lock = "free"

\* C4 witness: a run with several units, failed and successful, has returned
C4_Witness ==
    /\ ret = "Ok"
    /\ Len(all_tasks) >= 2
    /\ \E k \in Tasks : Failed(k)
    /\ \E k \in Tasks : all_tasks[k].writes = 1

\* C5: the returned sequence is exactly the texts of the segments whose cut
\* and transcription both succeeded, in index order, nothing standing for a
\* failed one; its length is their number; slot i is filled iff unit i did.
C5_SilentDropAssembly ==
    ret = "Ok" =>
        LET Good == {k \in Tasks : Succeeded(k)} IN
        /\ final_transcriptions = Pick(Good)
        /\ Len(final_transcriptions) = Cardinality(Good)
        /\ Len(transcriptions) = Len(all_tasks)
        /\ \A k \in Tasks :
              transcriptions[SlotOf(all_tasks[k].idx)] # None <=> k \in Good

\* C5 witness: a failed segment between two successful ones was dropped
C5_Witness ==
    /\ ret = "Ok"
    /\ Len(all_tasks) >= 3
    /\ Succeeded(1) /\ Failed(2) /\ Succeeded(3)
    /\ Len(final_transcriptions) = 2

\* C6: for a segment length > 0 the slot array has
\* ceil(total_duration / segment_duration_secs) slots, none for duration 0.
C6_SegmentCountIsCeiling ==
    (Allocated /\ segment_duration_secs > 0) =>
        /\ Len(transcriptions) = CeilDiv(total_duration, segment_duration_secs)
        /\ total_segments(total_duration, segment_duration_secs)
              = CeilDiv(total_duration, segment_duration_secs)
        /\ total_duration = 0 => Len(transcriptions) = 0

\* C6 witness: a duration that is not a multiple of the segment length
C6_Witness ==
    /\ Allocated
    /\ segment_duration_secs > 1
    /\ total_duration > segment_duration_secs
    /\ total_duration % segment_duration_secs # 0

\* C7: the launched units request [i*d, i*d + d) for i = 0..segment_count-1;
\* clipped to the source length these ranges follow one another from 0 to
\* total_duration with no gap and no overlap, and only the last is shorter.
C7_Tiling ==
    (Launched /\ segment_duration_secs > 0) =>
        LET d == segment_duration_secs
            n == Len(all_tasks)
        IN
        /\ n = CeilDiv(total_duration, d)
        /\ \A k \in Tasks :
              /\ all_tasks[k].start_time = (k - 1) * d
              /\ all_tasks[k].duration_secs = d
              /\ all_tasks[k].start_time < ClippedEnd(k)
              /\ k < n => ClippedEnd(k) = all_tasks[k + 1].start_time
              /\ k < n => ClippedEnd(k) - all_tasks[k].start_time = d
        /\ n > 0 => all_tasks[1].start_time = 0 /\ ClippedEnd(n) = total_duration
        /\ n = 0 => total_duration = 0

\* C7 witness: several units, the last one shorter than the others
C7_Witness ==
    /\ Launched
    /\ Len(all_tasks) >= 2
    /\ ClippedEnd(Len(all_tasks)) - all_tasks[Len(all_tasks)].start_time
          < segment_duration_secs

\* C8 (as claimed): a max_segment_size below one second of encoded audio makes
\* the call end by returning an error to the caller, with no unit scheduled.
C8_ConfigurationErrorReturned ==
    (max_segment_size \div (BitrateBitsPerSec \div BitsPerByte) = 0 /\ RunOver) =>
        /\ ret = "Err"
        /\ all_tasks = <<>>

\* C9: a probe result of 0 (segment length > 0) makes the run succeed with an
\* empty sequence, without any segmentation or transcription call.
C9_ZeroLengthInput ==
    (probe = "ok" /\ total_duration = 0 /\ segment_duration_secs > 0) =>
        /\ all_tasks = <<>>
        /\ pc # "panicked"
        /\ RunOver => ret = "Ok" /\ final_transcriptions = <<>>

\* C9 witness: the run returned for a zero-length input
C9_Witness ==
    /\ probe = "ok"
    /\ total_duration = 0
    /\ segment_duration_secs > 0
    /\ ret = "Ok"

\* C10: when total_duration is a positive multiple of the segment length,
\* exactly total_duration / segment_duration_secs units are launched, each
\* covers a full segment of source audio and none starts at total_duration.
C10_ExactDivision ==
    (probe = "ok" /\ segment_duration_secs > 0 /\ total_duration > 0
        /\ total_duration % segment_duration_secs = 0) =>
        /\ Launched => Len(all_tasks) = total_duration \div segment_duration_secs
        /\ \A k \in Tasks :
              /\ all_tasks[k].start_time # total_duration
              /\ all_tasks[k].start_time + all_tasks[k].duration_secs
                    <= total_duration
              /\ all_tasks[k].duration_secs = segment_duration_secs

\* C10 witness: two full segments launched for a duration of two lengths
C10_Witness ==
    /\ Launched
    /\ segment_duration_secs > 1
    /\ total_duration = 2 * segment_duration_secs
    /\ Len(all_tasks) = 2

\* C11: a slot changes only from empty to the text of the unit that owns its
\* index, written by that unit's single write; a filled slot never changes.
C11_SlotOwnership ==
    [][\A s \in DOMAIN transcriptions :
          transcriptions'[s] # transcriptions[s] =>
              /\ transcriptions[s] = None
              /\ \E k \in Tasks :
                    /\ all_tasks[k].idx = s - 1
                    /\ all_tasks[k].st = "locked"
                    /\ all_tasks[k].writes = 0
                    /\ all_tasks'[k].st = "ok"
                    /\ all_tasks'[k].writes = 1
                    /\ transcriptions'[s] = Some(all_tasks[k].text)
                    /\ \A j \in Tasks \ {k} : all_tasks'[j] = all_tasks[j]]_vars

\* C11 witness: two units have written their slots, the later one first
C11_Witness ==
    /\ overtook
    /\ Cardinality({s \in DOMAIN transcriptions : transcriptions[s] # None}) >= 2
    /\ \A k \in Tasks : all_tasks[k].writes <= 1

\* the texts of all tasks with one space between consecutive ones
SpaceJoined ==
    LET F[k \in 0..Len(all_tasks)] ==
            IF k = 0 THEN <<>>
            ELSE IF k = 1 THEN all_tasks[1].text
            ELSE F[k - 1] \o <<" ">> \o all_tasks[k].text
    IN F[Len(all_tasks)]

C16_UnitStepOrder ==
    \A k \in Tasks :
        /\ all_tasks[k].tr_calls > 0 => all_tasks[k].cut = "ok"
        /\ all_tasks[k].st \in {"cut_ok", "got_text", "locked"} =>
              all_tasks[k].cut = "ok"
        /\ all_tasks[k].cut = "err" =>
              /\ all_tasks[k].st = "err"
              /\ all_tasks[k].tr_calls = 0
              /\ all_tasks[k].writes = 0
              /\ SlotOf(all_tasks[k].idx) \in DOMAIN transcriptions =>
                    transcriptions[SlotOf(all_tasks[k].idx)] = None
        /\ all_tasks[k].st = "spawned" => ENABLED split_audio_segment(k)
        /\ all_tasks[k].st = "cut_ok" => ENABLED transcribe_audio_segment(k)

\* C16 witness: one unit ended on a failed cut while a sibling was transcribed
C16_Witness ==
    /\ \E k \in Tasks : all_tasks[k].cut = "err"
    /\ \E k \in Tasks : all_tasks[k].tr_calls = 1 /\ all_tasks[k].writes = 1

\* C17 (as claimed): a run that has returned invoked the probe exactly once
\* and, per segment index, the segmenter and the client at most once.
C17_ProbeExactlyOnce ==
    /\ ret # "none" => probe_calls = 1
    /\ \A k \in Tasks : all_tasks[k].cut_calls <= 1 /\ all_tasks[k].tr_calls <= 1

\* C17 (amended): the probe is invoked at most once in a run, and exactly
\* once in every run that got past the file stem and the split_audio
\* directory; per segment index the segmenter and the client are invoked at
\* most once, and a failed call is never followed by a second one.
C17_NoRetries ==
    /\ probe_calls <= 1
    /\ probe_calls = 1 <=> probe # "none"
    /\ probe = "none" => pc \in {"upload", "process", "entry", "probe",
                                 "panicked", "done", "respond"}
    /\ pc \in {"alloc", "loop", "join", "assemble", "persist"} => probe_calls = 1
    /\ \A k \in Tasks :
          /\ all_tasks[k].cut_calls <= 1
          /\ all_tasks[k].tr_calls <= 1
          /\ Failed(k) => Terminal(all_tasks[k])

\* C17 witness: a run returned after a failed cut and a failed transcription
C17_Witness ==
    /\ ret = "Ok"
    /\ probe_calls = 1
    /\ \E k \in Tasks : all_tasks[k].cut = "err" /\ all_tasks[k].cut_calls = 1
    /\ \E k \in Tasks : all_tasks[k].tr = "err" /\ all_tasks[k].tr_calls = 1

\* C18: for a segment length > 0 the units launched are those of the indices
\* 0..segment_count-1, one each, as many as the slot array has slots, and no
\* slot write is ever out of bounds.
C18_OneUnitPerSegment ==
    segment_duration_secs > 0 =>
        /\ \A k \in Tasks :
              /\ all_tasks[k].idx = k - 1
              /\ all_tasks[k].idx < Len(transcriptions)
              /\ all_tasks[k].st # "panicked"
        /\ ~poisoned
        /\ Launched =>
              /\ Len(all_tasks) = Len(transcriptions)
              /\ Len(all_tasks) =
                    CeilDiv(total_duration, segment_duration_secs)

\* C18 witness: the loop ended with one unit per slot and the last slot written
C18_Witness ==
    /\ Launched
    /\ Len(all_tasks) >= 2
    /\ Len(all_tasks) = Len(transcriptions)
    /\ transcriptions[Len(transcriptions)] # None

\* C20: when the probe reports a duration > 0 and every launched unit fails,
\* the run returns Ok with an empty sequence, as for a zero-length input.
C20_TotalFailureIsSuccess ==
    (probe = "ok" /\ total_duration > 0 /\ all_tasks # <<>> /\ RunOver
        /\ \A k \in Tasks : Failed(k)) =>
        /\ ret = "Ok"
        /\ final_transcriptions = <<>>
        /\ \A s \in DOMAIN transcriptions : transcriptions[s] = None

\* C20 witness: units failed in segmentation and in transcription, run returned
C20_Witness ==
    /\ ret = "Ok"
    /\ total_duration > 0
    /\ Len(all_tasks) >= 2
    /\ \A k \in Tasks : Failed(k)
    /\ \E k \in Tasks : all_tasks[k].cut = "err"
    /\ \E k \in Tasks : all_tasks[k].tr = "err"

\* the slot-array lock is held by a task only between its lock and its write
LockHeldOnlyForWrite ==
    /\ lock \in {"free", "task"}
    /\ lock = "task" <=> \E k \in Tasks : all_tasks[k].st = "locked"
    /\ Cardinality({k \in Tasks : all_tasks[k].st = "locked"}) <= 1
    /\ lock = "task" => ENABLED (\E k \in Tasks : task_write(k))

\* a run with a segment length > 0 ends by returning, every unit terminal
ValidSizeRunReturns ==
    (pc = "entry" /\ max_segment_size >= BitrateBitsPerSec \div BitsPerByte)
        ~> (ret # "none" /\ Awaited = {})

\* C19 (as claimed): under fair scheduling, with every external call
\* returning, a run that has started eventually returns, with every unit in
\* a terminal state.
C19_RunEventuallyReturns ==
    (pc = "entry") ~> (ret # "none" /\ Awaited = {})

\* C14: the transcription client returns a text iff the segment file opened,
\* the request completed, the status was a success and the body was JSON with
\* a string text field, and then that text; otherwise an error and no text.
C14_ClientTextIffAllSucceed ==
    fn_out # <<>> =>
        LET r == fn_out[1]
            good == /\ fn_in.file_opens
                    /\ fn_in.sent
                    /\ fn_in.is_success
                    /\ fn_in.body.json
                    /\ fn_in.body.field = "string"
        IN /\ r # None <=> good
           /\ good => r = fn_in.body.text
           /\ ~good => r = None

\* C14 witness: a request answered with a non-empty text
C14_Witness ==
    /\ fn_out # <<>>
    /\ fn_in.is_success
    /\ fn_out[1] # None
    /\ fn_out[1][1] # <<>>

\* C15 (as claimed): for every output whose duration field has the three-part
\* form the prober returns hours*3600 + minutes*60 + seconds, the fraction
\* dropped; without a duration line, or with a field that has not exactly
\* three numeric parts, it returns an error.
C15_ProbeParsesDuration ==
    fn_out # <<>> =>
        /\ fn_in.kind \in {"three_part", "three_part_after_title"} =>
              fn_out[1] = Some(fn_in.h * 3600 + fn_in.m * 60 + fn_in.sec)
        /\ fn_in.kind \in {"no_line", "not_available", "two_parts",
                           "four_parts", "non_numeric", "no_field"} =>
              fn_out[1] = None

\* the same, for the outputs in which no line before ffmpeg's Duration line
\* contains the word "Duration"
ProbeParsesFirstDurationLine ==
    (fn_out # <<>> /\ fn_in.kind # "three_part_after_title") =>
        /\ fn_in.kind = "three_part" =>
              fn_out[1] = Some(fn_in.h * 3600 + fn_in.m * 60 + fn_in.sec)
        /\ fn_in.kind # "three_part" => fn_out[1] = None

\* C13 (as claimed): no segment file path is written by two different units,
\* of the same run or of two runs that execute concurrently.
C13_SegmentPathWrittenByOneUnit ==
    \A f \in files, g \in files : f.path = g.path => f.by = g.by

\* the part that holds: two units of the same run, and two units of runs on
\* inputs with different stems (such as two uploads), write different paths
SegmentPathsOfOneRunDiffer ==
    \A f \in files, g \in files :
        (f.path = g.path /\ f.by # g.by) =>
            /\ f.by[1] # g.by[1]
            /\ f.by[2] = g.by[2]
            /\ file_stem(runs[f.by[1]].input_path)
                  = file_stem(runs[g.by[1]].input_path)
            /\ runs[f.by[1]].input_path.dir # "uploads"

====
